---- MODULE Spec2Model ----
(***************************************************************************)
(* Model of .github/scripts/gemini_issue_triage.py: the model selector     *)
(* discover_model and the linear run of main (model-list GET, generation   *)
(* POST, comment POST).                                                    *)
(*                                                                         *)
(* JSON values are records [t, s]: t is the JSON type ("str", "num",       *)
(* "list" for a one-element array [s], "absent" for a missing key or       *)
(* null) and s the text.  Python exceptions are strings naming the         *)
(* exception class; "" means no exception was raised.                      *)
(***************************************************************************)
EXTENDS Integers, Sequences, FiniteSets, TLC

\* Longest "models" array of a model-list response.
MaxModels == 2

PREFERRED_MODEL == "models/gemini-2.5-flash"
LIST_URL == "https://generativelanguage.googleapis.com/v1beta/models"
GENERATE_PREFIX == "https://generativelanguage.googleapis.com/v1beta/"
GENERATE_SUFFIX == ":generateContent"
\* The header of line 93, without its non-ASCII sign.
COMMENT_HEADER == "### Gemini Action Plan\n\n"
WARNING == "Warning: model discovery failed, defaulting to"
MISSING == "Missing GEMINI_API_KEY or GITHUB_TOKEN"
LIST_TIMEOUT == 10
GENERATE_TIMEOUT == 30
COMMENT_TIMEOUT == 15

-----------------------------------------------------------------------------
(* JSON values and Python's operations on them *)

JStr(s) == [t |-> "str", s |-> s]
JNum == [t |-> "num", s |-> "5"]
JList1(s) == [t |-> "list", s |-> s]
JAbsent == [t |-> "absent", s |-> ""]

\* Python truthiness, as used by `if m.get("name")`, `not api_key`, `or []`.
Truthy(v) ==
    CASE v.t = "str" -> v.s # ""
      [] v.t = "num" -> TRUE
      [] v.t = "list" -> TRUE
      [] OTHER -> FALSE

\* Python's `pat in s` on two strings: pat occurs in s as a substring.
Contains(pat, s) ==
    \E i \in 1..(Len(s) - Len(pat) + 1) : SubSeq(s, i, i + Len(pat) - 1) = pat

\* Python's `pat in v` for a JSON value v: "T", "F", or the exception raised.
InValue(pat, v) ==
    CASE v.t = "str" -> IF Contains(pat, v.s) THEN "T" ELSE "F"
      [] v.t = "list" -> IF v.s = pat THEN "T" ELSE "F"
      [] OTHER -> "TypeError"

\* str(v), as an f-string or str.format renders a value.
Format(v) ==
    CASE v.t = "str" -> v.s
      [] v.t = "num" -> v.s
      [] v.t = "list" -> "['" \o v.s \o "']"
      [] OTHER -> "None"

\* Response.raise_for_status(): HTTPError for a 4xx or 5xx status.
raise_for_status(status) ==
    IF status >= 400 /\ status < 600 THEN "HTTPError" ELSE ""

-----------------------------------------------------------------------------
(* discover_model *)

\* any("generateContent" in m for m in methods), left to right, stopping at
\* the first match.
RECURSIVE any_generate(_)
any_generate(items) ==
    IF items = <<>> THEN "F"
    ELSE LET r == InValue("generateContent", Head(items))
         IN  IF r = "F" THEN any_generate(Tail(items)) ELSE r

\* supports_generate(model): methods = model.get(...) or [].
supports_generate(m) ==
    CASE m.methods.t = "absent" -> "F"
      [] m.methods.t = "num" -> "TypeError"
      [] OTHER -> any_generate(m.methods.items)

\* filtered_names without the supports_generate condition.
RECURSIVE filtered_names_any_method(_)
filtered_names_any_method(entries) ==
    IF entries = <<>> THEN [exc |-> "", names |-> <<>>]
    ELSE LET m == Head(entries)
         IN  IF ~m.obj THEN [exc |-> "AttributeError", names |-> <<>>]
             ELSE LET rest == filtered_names_any_method(Tail(entries))
                  IN  IF rest.exc # "" THEN rest
                      ELSE IF Truthy(m.name)
                           THEN [exc |-> "", names |-> <<m.name>> \o rest.names]
                           ELSE rest

\* [m.get("name") for m in models if m.get("name") and supports_generate(m)]
\* Result: [exc, names]; a non-object entry has no .get (AttributeError).
RECURSIVE filtered_names(_)
filtered_names(entries) ==
    IF entries = <<>> THEN [exc |-> "", names |-> <<>>]
    ELSE LET m == Head(entries)
             sup == IF m.obj /\ Truthy(m.name) THEN supports_generate(m) ELSE "F"
         IN  IF ~m.obj THEN [exc |-> "AttributeError", names |-> <<>>]
             ELSE IF sup \notin {"T", "F"} THEN [exc |-> sup, names |-> <<>>]
             ELSE LET rest == filtered_names(Tail(entries))
                  IN  IF rest.exc # "" THEN rest
                      ELSE IF sup = "T"
                           THEN [exc |-> "", names |-> <<m.name>> \o rest.names]
                           ELSE rest

\* [n for n in names if pat in n]; raises when some name is not iterable.
candidates(pat, names) ==
    IF \E i \in 1..Len(names) : InValue(pat, names[i]) \notin {"T", "F"}
    THEN [exc |-> "TypeError", names |-> <<>>]
    ELSE [exc |-> "",
          names |-> SelectSeq(names, LAMBDA n : InValue(pat, n) = "T")]

\* select_model with "pro" tried before "flash".
select_model_pro_first(names) ==
    LET flash_25 == candidates("gemini-2.5-flash", names)
        flash_any == candidates("flash", names)
        pro_any == candidates("pro", names)
    IN  IF flash_25.exc # "" THEN [exc |-> flash_25.exc, value |-> JAbsent]
        ELSE IF flash_25.names # <<>> THEN [exc |-> "", value |-> flash_25.names[1]]
        ELSE IF pro_any.names # <<>> THEN [exc |-> "", value |-> pro_any.names[1]]
        ELSE IF flash_any.names # <<>> THEN [exc |-> "", value |-> flash_any.names[1]]
        ELSE IF names # <<>> THEN [exc |-> "", value |-> names[1]]
        ELSE [exc |-> "", value |-> JStr(PREFERRED_MODEL)]

\* select_model whose last line returns PREFERRED_MODEL whatever names holds.
select_model_no_first_name(names) ==
    LET flash_25 == candidates("gemini-2.5-flash", names)
        flash_any == candidates("flash", names)
        pro_any == candidates("pro", names)
    IN  IF flash_25.exc # "" THEN [exc |-> flash_25.exc, value |-> JAbsent]
        ELSE IF flash_25.names # <<>> THEN [exc |-> "", value |-> flash_25.names[1]]
        ELSE IF flash_any.names # <<>> THEN [exc |-> "", value |-> flash_any.names[1]]
        ELSE IF pro_any.names # <<>> THEN [exc |-> "", value |-> pro_any.names[1]]
        ELSE [exc |-> "", value |-> JStr(PREFERRED_MODEL)]

\* Lines 25-35: the three candidate lists and the priority chain.
select_model(names) ==
    LET flash_25 == candidates("gemini-2.5-flash", names)
        flash_any == candidates("flash", names)
        pro_any == candidates("pro", names)
    IN  IF flash_25.exc # "" THEN [exc |-> flash_25.exc, value |-> JAbsent]
        ELSE IF flash_25.names # <<>> THEN [exc |-> "", value |-> flash_25.names[1]]
        ELSE IF flash_any.names # <<>> THEN [exc |-> "", value |-> flash_any.names[1]]
        ELSE IF pro_any.names # <<>> THEN [exc |-> "", value |-> pro_any.names[1]]
        ELSE IF names # <<>> THEN [exc |-> "", value |-> names[1]]
        ELSE [exc |-> "", value |-> JStr(PREFERRED_MODEL)]

\* Body of the try block given the outcome of the GET: [exc, value].
try_discover(resp) ==
    LET raised(e) == [exc |-> e, value |-> JAbsent]
    IN  CASE resp.kind = "transport" -> raised("ConnectionError")
          [] resp.kind = "timeout" -> raised("Timeout")
          [] raise_for_status(resp.status) # "" -> raised(raise_for_status(resp.status))
          [] resp.shape = "notjson" -> raised("JSONDecodeError")
          [] resp.shape = "toplist" -> raised("AttributeError")
          [] resp.mt = "absent" -> select_model(<<>>)
          [] resp.mt \in {"null", "num"} -> raised("TypeError")
          [] OTHER ->
               LET f == filtered_names(resp.entries)
               IN  IF f.exc # "" THEN raised(f.exc) ELSE select_model(f.names)

\* An except clause that catches the HTTP client's errors only.
except_request_errors(e) == e \in {"ConnectionError", "Timeout", "HTTPError"}

\* `except Exception` (line 36): the exception classes it catches.  Every
\* exception the try block can raise derives from Exception.
except_Exception(e) ==
    e \in {"ConnectionError", "Timeout", "HTTPError", "JSONDecodeError",
           "AttributeError", "TypeError", "KeyError", "IndexError"}

\* discover_model: [value, exc, raised].  exc # "": the except branch ran,
\* which prints the warning and returns PREFERRED_MODEL.  raised # "": an
\* exception left the function.
discover_model(resp) ==
    LET r == try_discover(resp)
    IN  IF r.exc = "" THEN [value |-> r.value, exc |-> "", raised |-> ""]
        ELSE IF except_Exception(r.exc)
             THEN [value |-> JStr(PREFERRED_MODEL), exc |-> r.exc, raised |-> ""]
             ELSE [value |-> JAbsent, exc |-> "", raised |-> r.exc]

-----------------------------------------------------------------------------
(* The generation response and the lookup                                  *)
(* result["candidates"][0]["content"]["parts"][0]["text"]                  *)

\* The subscripts of the lookup, in order: "k" a string key, "i" index 0.
LookupSteps == <<"k", "i", "k", "k", "i", "k">>

\* One subscript applied to a JSON node of kind `node` whose child on the
\* lookup path has kind `child` ("missing": no such key or element).
\* Result: "" when the subscript succeeds, else the exception raised.
subscript(step, node, child) ==
    CASE node = "obj" -> IF step = "k" /\ child # "missing" THEN "" ELSE "KeyError"
      [] node = "arr" -> IF step = "k" THEN "TypeError"
                         ELSE IF child = "missing" THEN "IndexError" ELSE ""
      [] node = "str" -> IF step = "k" THEN "TypeError"
                         ELSE IF child = "missing" THEN "IndexError" ELSE ""
      [] OTHER -> "TypeError"

\* The whole lookup over the spine of node kinds along the path
\* <<result, candidates, candidates[0], content, parts, parts[0], text>>.
RECURSIVE lookup_from(_, _)
lookup_from(spine, i) ==
    IF i > Len(LookupSteps) THEN ""
    ELSE LET e == subscript(LookupSteps[i], spine[i], spine[i + 1])
         IN  IF e # "" THEN e ELSE lookup_from(spine, i + 1)

lookup_text(spine) == lookup_from(spine, 1)

-----------------------------------------------------------------------------
(* Inputs: environment values and the responses the three endpoints give *)

EnvValues == {JAbsent, JStr(""), JStr("KEY")}

MList(items) == [t |-> "list", items |-> items]
MAbsent == [t |-> "absent", items |-> <<>>]
MNum == [t |-> "num", items |-> <<>>]

Descriptor(name, methods) == [obj |-> TRUE, name |-> name, methods |-> methods]
NonObject == [obj |-> FALSE, name |-> JAbsent, methods |-> MAbsent]

\* Descriptors as the data model has them: a name (or none) and a list of
\* method names.
NameValues ==
    {JAbsent, JStr("models/gemini-2.5-flash"), JStr("models/gemini-2.5-flash-lite"),
     JStr("models/gemini-1.5-flash"), JStr("models/gemini-1.0-pro"),
     JStr("models/embedding-001")}

MethodValues ==
    {MList(<<JStr("generateContent"), JStr("countTokens")>>),
     MList(<<JStr("embedContent"), JStr("batchGenerateContent")>>)}

\* Entries of other JSON shapes: an empty name, no methods key, a number or
\* an array as the name, a number among or instead of the methods, an entry
\* that is no object.
OddEntries ==
    {Descriptor(JStr(""), MList(<<JStr("generateContent")>>)),
     Descriptor(JStr("models/gemini-1.0-pro"), MAbsent),
     Descriptor(JNum, MList(<<JStr("generateContent")>>)),
     Descriptor(JList1("flash"), MList(<<JStr("generateContent")>>)),
     Descriptor(JStr("models/embedding-001"), MList(<<JStr("generateContent"), JNum>>)),
     Descriptor(JStr("models/embedding-001"), MList(<<JNum, JStr("generateContent")>>)),
     Descriptor(JStr("models/embedding-001"), MNum),
     NonObject}

Entries ==
    {Descriptor(n, ms) : n \in NameValues, ms \in MethodValues} \cup OddEntries

EntryLists == UNION {[1..n -> Entries] : n \in 0..MaxModels}

NoResp == [kind |-> "none", status |-> 0, shape |-> "none", mt |-> "none",
           entries |-> <<>>]

\* Statuses of the model-list response; an error status comes with a body
\* the code never reads.
ListStatuses == {200, 404, 503}

ListBodies ==
    {[shape |-> "notjson", mt |-> "none", entries |-> <<>>],
     [shape |-> "toplist", mt |-> "none", entries |-> <<>>]}
    \cup {[shape |-> "object", mt |-> t, entries |-> <<>>] :
             t \in {"absent", "null", "num"}}
    \cup {[shape |-> "object", mt |-> "list", entries |-> es] : es \in EntryLists}

ListResponses ==
    {[kind |-> k, status |-> 0, shape |-> "none", mt |-> "none", entries |-> <<>>] :
        k \in {"transport", "timeout"}}
    \cup {[kind |-> "response", status |-> st, shape |-> "notjson", mt |-> "none",
           entries |-> <<>>] : st \in {c \in ListStatuses : raise_for_status(c) # ""}}
    \cup {[kind |-> "response", status |-> st, shape |-> b.shape, mt |-> b.mt,
           entries |-> b.entries] :
             st \in {c \in ListStatuses : raise_for_status(c) = ""}, b \in ListBodies}

Missing6 == <<"missing", "missing", "missing", "missing", "missing", "missing">>
FullSpine(textKind) == <<"obj", "arr", "obj", "obj", "arr", "obj", textKind>>

GenSpines ==
    {FullSpine("str"), FullSpine("null"), FullSpine("missing"),
     <<"null">> \o Missing6,
     <<"arr">> \o Missing6,
     <<"obj">> \o Missing6,
     <<"obj", "null", "missing", "missing", "missing", "missing", "missing">>,
     <<"obj", "arr", "missing", "missing", "missing", "missing", "missing">>,
     <<"obj", "str", "str", "missing", "missing", "missing", "missing">>,
     <<"obj", "arr", "obj", "missing", "missing", "missing", "missing">>,
     <<"obj", "arr", "obj", "obj", "arr", "missing", "missing">>}

NoGenResp == [kind |-> "none", status |-> 0, shape |-> "none", raw |-> "",
              spine |-> <<>>, text |-> JAbsent]

GenStatuses == {200, 204, 429, 500}

\* The value found at the end of the lookup for a spine whose text node exists.
TextOf(spine) ==
    IF spine[7] = "str" THEN {JStr("- [ ] steps to reproduce"), JStr("")}
    ELSE {JAbsent}

GenResponses ==
    {[kind |-> k, status |-> 0, shape |-> "none", raw |-> "", spine |-> <<>>,
      text |-> JAbsent] : k \in {"transport", "timeout"}}
    \cup {[kind |-> "response", status |-> st, shape |-> "notjson",
           raw |-> "<html>", spine |-> <<>>, text |-> JAbsent] : st \in GenStatuses}
    \cup UNION {{[kind |-> "response", status |-> st, shape |-> "json", raw |-> "{}",
                  spine |-> sp, text |-> tx] : tx \in TextOf(sp)} :
                    st \in GenStatuses, sp \in GenSpines}

NoPostResp == [kind |-> "none", status |-> 0]

\* Final statuses of the comment POST (the HTTP client follows redirects).
PostStatuses == {201, 403, 502}

PostResponses ==
    {[kind |-> k, status |-> 0] : k \in {"transport", "timeout"}}
    \cup {[kind |-> "response", status |-> st] : st \in PostStatuses}

-----------------------------------------------------------------------------
(* main *)

VARIABLES
    pc,            \* position of main: "start", "list_wait", "discovered",
                   \* "gen_wait", "parsed", "post_wait", "exited"
    api_key, gh_token, repo, issue_number,   \* os.environ reads
    listResp,      \* resp inside discover_model (NoResp outside it)
    model_name,    \* value returned by discover_model
    response,      \* the generation response
    ai_checklist,  \* the parsed text
    gh_response,   \* the comment response
    requests,      \* the network requests issued so far, in order
    stdout,        \* the lines printed so far, in order
    exit_status,   \* -1 while running, else the process exit status
    uncaught       \* exception that propagated out of main ("" if none)

vars == <<pc, api_key, gh_token, repo, issue_number, listResp, model_name,
          response, ai_checklist, gh_response, requests, stdout, exit_status,
          uncaught>>

Line(msg, a, b) == [msg |-> msg, a |-> a, b |-> b]
Request(ep, url, body, timeout) ==
    [ep |-> ep, url |-> url, body |-> body, timeout |-> timeout]

Init ==
    /\ pc = "start"
    /\ api_key \in EnvValues
    /\ gh_token \in EnvValues
    /\ \E env \in {<<"", "">>, <<"octo/app", "7">>} :
         repo = env[1] /\ issue_number = env[2]
    /\ listResp = NoResp
    /\ model_name = JAbsent
    /\ response = NoGenResp
    /\ ai_checklist = JAbsent
    /\ gh_response = NoPostResp
    /\ requests = <<>>
    /\ stdout = <<>>
    /\ exit_status = -1
    /\ uncaught = ""

\* The credential test with `and` in place of `or`.
credentials_missing_both(key, token) == ~Truthy(key) /\ ~Truthy(token)

\* Line 49: `not api_key or not gh_token`.
credentials_missing(key, token) == ~Truthy(key) \/ ~Truthy(token)

\* Lines 49-51: a credential is missing or empty.
MissingCredentials ==
    /\ pc = "start"
    /\ credentials_missing(api_key, gh_token)
    /\ stdout' = Append(stdout, Line(MISSING, "", ""))
    /\ exit_status' = 1
    /\ pc' = "exited"
    /\ UNCHANGED <<api_key, gh_token, repo, issue_number, listResp, model_name,
                   response, ai_checklist, gh_response, requests, uncaught>>

\* Lines 53, 15: main calls discover_model, which issues the GET and blocks.
ListSend ==
    /\ pc = "start"
    /\ ~credentials_missing(api_key, gh_token)
    /\ requests' = Append(requests,
                      Request("list", LIST_URL \o "?key=" \o Format(api_key), "",
                              LIST_TIMEOUT))
    /\ pc' = "list_wait"
    /\ UNCHANGED <<api_key, gh_token, repo, issue_number, listResp, model_name,
                   response, ai_checklist, gh_response, stdout, exit_status, uncaught>>

\* Lines 15-38, 53: the GET completes and discover_model returns.
ListRecv ==
    /\ pc = "list_wait"
    /\ \E resp \in ListResponses :
         LET d == discover_model(resp)
         IN  /\ listResp' = resp
             /\ model_name' = d.value
             /\ stdout' = IF d.exc # ""
                          THEN Append(stdout, Line(WARNING, PREFERRED_MODEL, d.exc))
                          ELSE stdout
             /\ uncaught' = d.raised
             /\ exit_status' = IF d.raised # "" THEN 1 ELSE exit_status
             /\ pc' = IF d.raised # "" THEN "exited" ELSE "discovered"
    /\ UNCHANGED <<api_key, gh_token, repo, issue_number, response, ai_checklist,
                   gh_response, requests>>

\* Lines 54-76: build the URL, print, issue the generation POST and block.
GenSend ==
    /\ pc = "discovered"
    /\ stdout' = Append(stdout, Line("Sending request to Gemini with model:",
                                     Format(model_name), ""))
    /\ requests' = Append(requests,
                      Request("generate",
                              GENERATE_PREFIX \o Format(model_name) \o GENERATE_SUFFIX
                                  \o "?key=" \o Format(api_key),
                              "prompt", GENERATE_TIMEOUT))
    /\ listResp' = NoResp
    /\ pc' = "gen_wait"
    /\ UNCHANGED <<api_key, gh_token, repo, issue_number, model_name, response,
                   ai_checklist, gh_response, exit_status, uncaught>>

\* generation_outcome without the exit of lines 77-79.
generation_outcome_no_status_exit(resp) ==
    LET crash(e) == [exc |-> e, line |-> "", ok |-> FALSE]
        fail(l) == [exc |-> "", line |-> l, ok |-> FALSE]
    IN  CASE resp.kind = "transport" -> crash("ConnectionError")
          [] resp.kind = "timeout" -> crash("Timeout")
          [] resp.shape = "notjson" -> crash("JSONDecodeError")
          [] lookup_text(resp.spine) \in {"KeyError", "IndexError", "TypeError"} ->
               fail("Error parsing Gemini response")
          [] OTHER -> [exc |-> "", line |-> "", ok |-> TRUE]

\* What lines 76-86 do with a generation outcome: [exc, line, ok].
\* exc: an exception nothing catches; line: the diagnostic printed.
generation_outcome(resp) ==
    LET crash(e) == [exc |-> e, line |-> "", ok |-> FALSE]
        fail(l) == [exc |-> "", line |-> l, ok |-> FALSE]
    IN  CASE resp.kind = "transport" -> crash("ConnectionError")
          [] resp.kind = "timeout" -> crash("Timeout")
          [] resp.status # 200 -> fail("Error:")
          [] resp.shape = "notjson" -> crash("JSONDecodeError")
          [] lookup_text(resp.spine) \in {"KeyError", "IndexError", "TypeError"} ->
               fail("Error parsing Gemini response")
          [] OTHER -> [exc |-> "", line |-> "", ok |-> TRUE]

\* Lines 76-86: the generation POST completes.
GenRecv ==
    /\ pc = "gen_wait"
    /\ \E resp \in GenResponses :
         LET o == generation_outcome(resp)
         IN  /\ response' = resp
             /\ uncaught' = o.exc
             /\ stdout' = IF o.line # ""
                          THEN Append(stdout, Line(o.line,
                                   IF resp.status # 200 THEN resp.raw ELSE "", ""))
                          ELSE stdout
             /\ ai_checklist' = IF o.ok THEN resp.text ELSE ai_checklist
             /\ exit_status' = IF o.ok THEN exit_status ELSE 1
             /\ pc' = IF o.ok THEN "parsed" ELSE "exited"
    /\ UNCHANGED <<api_key, gh_token, repo, issue_number, listResp, model_name,
                   gh_response, requests>>

\* Lines 88-96: build the comment, print, issue the comment POST and block.
PostSend ==
    /\ pc = "parsed"
    /\ stdout' = Append(stdout, Line("Posting to GitHub...", "", ""))
    /\ requests' = Append(requests,
                      Request("comment",
                              "https://api.github.com/repos/" \o repo \o "/issues/"
                                  \o issue_number \o "/comments",
                              COMMENT_HEADER \o Format(ai_checklist),
                              COMMENT_TIMEOUT))
    /\ pc' = "post_wait"
    /\ UNCHANGED <<api_key, gh_token, repo, issue_number, listResp, model_name,
                   response, ai_checklist, gh_response, exit_status, uncaught>>

\* comment_outcome without the raise_for_status call of line 97.
comment_outcome_no_raise(resp) ==
    CASE resp.kind = "transport" -> "ConnectionError"
      [] resp.kind = "timeout" -> "Timeout"
      [] OTHER -> ""

\* What lines 96-98 raise for a comment outcome ("" if nothing).
comment_outcome(resp) ==
    CASE resp.kind = "transport" -> "ConnectionError"
      [] resp.kind = "timeout" -> "Timeout"
      [] OTHER -> raise_for_status(resp.status)

\* Lines 96-98: the comment POST completes.
PostRecv ==
    /\ pc = "post_wait"
    /\ \E resp \in PostResponses :
         LET e == comment_outcome(resp)
         IN  /\ gh_response' = resp
             /\ uncaught' = e
             /\ stdout' = IF e = "" THEN Append(stdout, Line("Done!", "", "")) ELSE stdout
             /\ exit_status' = IF e = "" THEN 0 ELSE 1
    /\ pc' = "exited"
    /\ UNCHANGED <<api_key, gh_token, repo, issue_number, listResp, model_name,
                   response, ai_checklist, requests>>

Next ==
    \/ MissingCredentials
    \/ ListSend
    \/ ListRecv
    \/ GenSend
    \/ GenRecv
    \/ PostSend
    \/ PostRecv

Spec == Init /\ [][Next]_vars

-----------------------------------------------------------------------------
(* The vocabulary of the properties, stated on the data and not through    *)
(* the selector's own operators.                                           *)

\* The descriptor has a name: a non-empty string.
Named(e) == e.obj /\ e.name.t = "str" /\ e.name.s # ""

\* supportedGenerationMethods has an entry containing "generateContent".
ListsGenerate(e) ==
    /\ e.obj
    /\ e.methods.t = "list"
    /\ \E i \in 1..Len(e.methods.items) :
         /\ e.methods.items[i].t = "str"
         /\ Contains("generateContent", e.methods.items[i].s)

\* A ModelDescriptor of the data model: a string name (or none) and a
\* sequence of strings (or none).
WellFormed(e) ==
    /\ e.obj
    /\ e.name.t \in {"str", "absent"}
    /\ e.methods.t \in {"list", "absent"}
    /\ \A i \in 1..Len(e.methods.items) : e.methods.items[i].t = "str"

Descriptors == listResp.entries

\* The model-list fetch succeeded and returned a descriptor list.
FetchSucceeded ==
    /\ listResp.kind = "response"
    /\ listResp.status \in 200..299
    /\ listResp.shape = "object"
    /\ listResp.mt \in {"list", "absent"}
    /\ \A i \in 1..Len(Descriptors) : WellFormed(Descriptors[i])

\* The failures the model-list step is said to absorb.
FetchFailed ==
    \/ listResp.kind \in {"transport", "timeout"}
    \/ /\ listResp.kind = "response"
       /\ \/ listResp.status \notin 200..299
          \/ listResp.shape \in {"notjson", "toplist"}
          \/ listResp.mt \in {"null", "num"}
          \/ \E i \in 1..Len(Descriptors) : ~Descriptors[i].obj

\* Positions of the named descriptors supporting generateContent.
Filtered == {i \in 1..Len(Descriptors) : Named(Descriptors[i]) /\ ListsGenerate(Descriptors[i])}

\* Positions of the filtered descriptors whose name contains pat.
Class(pat) == {i \in Filtered : Contains(pat, Descriptors[i].name.s)}

First(S) == CHOOSE i \in S : \A j \in S : i <= j

\* The position the priority order picks, for a non-empty filtered set.
Preferred ==
    IF Class("gemini-2.5-flash") # {} THEN First(Class("gemini-2.5-flash"))
    ELSE IF Class("flash") # {} THEN First(Class("flash"))
    ELSE IF Class("pro") # {} THEN First(Class("pro"))
    ELSE First(Filtered)

Returned == pc = "discovered"

Warned ==
    /\ stdout # <<>>
    /\ stdout[Len(stdout)].msg = WARNING
    /\ stdout[Len(stdout)].a = PREFERRED_MODEL
    /\ stdout[Len(stdout)].b # ""

Issued(ep) == \E i \in 1..Len(requests) : requests[i].ep = ep

Printed(msg) == \E i \in 1..Len(stdout) : stdout[i].msg = msg

CredentialsPresent ==
    /\ api_key.t = "str" /\ api_key.s # ""
    /\ gh_token.t = "str" /\ gh_token.s # ""

\* The generation response holds candidates[0].content.parts[0].text.
TextPresent(r) ==
    /\ r.shape = "json"
    /\ SubSeq(r.spine, 1, 6) = <<"obj", "arr", "obj", "obj", "arr", "obj">>
    /\ r.spine[7] # "missing"

-----------------------------------------------------------------------------
(* Properties *)

\* C1: after a successful fetch with a non-empty filtered list, discover_model
\* returns the first name, in list order, of the first non-empty class among
\* "gemini-2.5-flash", "flash", "pro", and the first filtered name when all
\* three classes are empty.
C1_PriorityOrder ==
    (Returned /\ FetchSucceeded /\ Filtered # {})
        => model_name = Descriptors[Preferred].name

\* C1 witness: a 2.5-flash name listed after a pro name is returned.
C1_Witness ==
    /\ Returned /\ FetchSucceeded
    /\ Len(Descriptors) = 2
    /\ 1 \in Class("pro")
    /\ 2 \in Class("gemini-2.5-flash")
    /\ model_name = Descriptors[2].name

C3_FallbackWithDiagnostic ==
    (Returned /\ (FetchFailed \/ (FetchSucceeded /\ Filtered = {})))
        => (model_name = JStr(PREFERRED_MODEL) /\ Warned)

\* C4: whatever the model-list request yields, discover_model returns a value
\* and a run with both credentials goes on to the generation request.
C4_ListFailureNeverAborts ==
    /\ Returned => (uncaught = "" /\ exit_status = -1 /\ model_name # JAbsent
                    /\ ENABLED GenSend)
    /\ (CredentialsPresent /\ pc \notin {"start", "list_wait", "discovered"})
          => Issued("generate")

\* C4 witness: the list body had an unexpected shape, the warning was printed
\* and the generation request was issued.
C4_Witness ==
    /\ pc = "gen_wait"
    /\ Issued("generate")
    /\ \E i \in 1..Len(stdout) :
         stdout[i].msg = WARNING /\ stdout[i].b \in {"AttributeError", "TypeError"}

\* C5 as stated: the value discover_model returns is a non-empty string, and
\* the generation URL has a non-empty model segment.
C5_NonEmptyString ==
    /\ Returned => (model_name.t = "str" /\ model_name.s # "")
    /\ \A i \in 1..Len(requests) :
         requests[i].ep = "generate"
            => requests[i].url # GENERATE_PREFIX \o GENERATE_SUFFIX \o "?key="
                                    \o Format(api_key)

\* C6: with the API key or the token missing or empty, the run prints the
\* diagnostic, exits with status 1 and issues no request.
C6_MissingCredentialsExit ==
    ~CredentialsPresent
        => /\ requests = <<>>
           /\ pc \in {"start", "exited"}
           /\ pc = "exited" => (exit_status = 1 /\ stdout = <<Line(MISSING, "", "")>>)

\* C6 witness: a run with a key and an empty token has exited with status 1.
C6_Witness ==
    /\ pc = "exited"
    /\ api_key = JStr("KEY") /\ gh_token = JStr("")
    /\ exit_status = 1

\* C7 as stated: a generation response with a status other than 200, or
\* whose body does not yield the text field, makes the run print a
\* diagnostic, exit with status 1 and never post the comment.
C7_GenerationFailureLogged ==
    (response.kind = "response" /\ (response.status # 200 \/ ~TextPresent(response)))
        => /\ exit_status = 1
           /\ ~Issued("comment")
           /\ stdout # <<>>
           /\ stdout[Len(stdout)].msg \in {"Error:", "Error parsing Gemini response"}

\* C8: the requests issued are a prefix of list GET, generation POST,
\* comment POST; generation follows the end of the list request, the comment
\* follows a generation response of status 200 with the text field.
C8_LinearRequests ==
    /\ Len(requests) <= 3
    /\ \A i \in 1..Len(requests) : requests[i].ep = <<"list", "generate", "comment">>[i]
    /\ Issued("generate") => (pc \notin {"start", "list_wait"} /\ model_name # JAbsent)
    /\ Issued("comment") => (response.kind = "response" /\ response.status = 200
                             /\ TextPresent(response))

\* C8 witness: all three requests were issued.
C8_Witness ==
    /\ Len(requests) = 3
    /\ pc = "exited"

C10_ReturnsListedName ==
    (Returned /\ FetchSucceeded)
        => /\ Filtered # {} => \E i \in Filtered : model_name = Descriptors[i].name
           /\ model_name = JStr(PREFERRED_MODEL)
                 => \/ Filtered = {}
                    \/ \E i \in Filtered : Descriptors[i].name = JStr(PREFERRED_MODEL)

\* C10 witness: no class matches and the first filtered name is returned.
C10_Witness ==
    /\ Returned /\ FetchSucceeded
    /\ Filtered # {}
    /\ Class("flash") = {} /\ Class("pro") = {}
    /\ model_name = Descriptors[First(Filtered)].name
    /\ model_name # JStr(PREFERRED_MODEL)

====
